---- MODULE Spec2Model ----
(***************************************************************************)
(* Model of the in-memory note store of src/src/api/notes.ts: the          *)
(* NotesStore class (two indexes, by id and by category), the zod schemas  *)
(* that guard it and the function API wrapped around the singleton store.  *)
(*                                                                         *)
(* JavaScript values are represented as follows.                           *)
(*  - A string is a record [ch, len]: the string made of len copies of the *)
(*    character ch (the empty string is [ch |-> "", len |-> 0]).  Its      *)
(*    .length is len.                                                      *)
(*  - An optional property is Undefined or Some(v).                        *)
(*  - A Date is its getTime() value.                                       *)
(*  - An object is a reference into heap; two references are the same      *)
(*    object exactly when they are equal.                                  *)
(*  - A Map keyed by category is a sequence of entries in insertion order  *)
(*    (the order Map iteration follows); the Map keyed by id is a function *)
(*    whose domain is the set of keys present.                             *)
(***************************************************************************)
EXTENDS Integers, Sequences, FiniteSets, TLC

VARIABLES heap, notesById, notes, ret, hasSeeded

vars == <<heap, notesById, notes, ret, hasSeeded>>

-----------------------------------------------------------------------------
(* Bounds of the model *)

MaxNotes == 3

MaxTime == 1

MaxLimit == 3

(* notes created through the form before or after the first seeding call *)
MaxUserNotes == 1

-----------------------------------------------------------------------------
(* JavaScript values *)

Undefined == [t |-> "undefined"]

Some(v) == [t |-> "value", v |-> v]

Str(ch, n) == IF n = 0 THEN [ch |-> "", len |-> 0] ELSE [ch |-> ch, len |-> n]

StrLen(s) == s.len

Num(n) == [t |-> "number", twice |-> 2 * n]

Half(n) == [t |-> "number", twice |-> n]

IsInteger(x) == x.twice % 2 = 0

IntOf(x) == x.twice \div 2

-----------------------------------------------------------------------------
(* Schema limits *)

TitleMin == 1

TitleMax == 255

ContentMax == 10000

CategoryMin == 1

CategoryMax == 50

TagMax == 30

Moods == {"calm", "inspired", "reflective", "grateful", "neutral"}

DefaultLimit == 100

DefaultOffset == 0

-----------------------------------------------------------------------------
(* generateId *)

IdTemplate ==
    << "x","x","x","x","x","x","x","x","-",
       "x","x","x","x","-",
       "4","x","x","x","-",
       "y","x","x","x","-",
       "x","x","x","x","x","x","x","x","x","x","x","x" >>

HexDigits ==
    << "0","1","2","3","4","5","6","7","8","9","a","b","c","d","e","f" >>

ToHex(v) == HexDigits[v + 1]

NumDraws == Cardinality({p \in 1..Len(IdTemplate) : IdTemplate[p] \in {"x", "y"}})

(* the k-th call of the replace callback is for the k-th x or y *)
DrawIndex == [p \in 1..Len(IdTemplate) |->
                 Cardinality({q \in 1..p : IdTemplate[q] \in {"x", "y"}})]

(* the variant digit masked with 7 instead of 3 *)
IdCharWideVariant(c, r) ==
    IF c = "x" THEN ToHex(r)
    ELSE IF c = "y" THEN ToHex((r % 8) + 8)
    ELSE c

IdChar(c, r) ==
    IF c = "x" THEN ToHex(r)
    ELSE IF c = "y" THEN ToHex((r % 4) + 8)
    ELSE c

GenerateId(draws) ==
    [p \in 1..Len(IdTemplate) |-> IdChar(IdTemplate[p], draws[DrawIndex[p]])]

-----------------------------------------------------------------------------
(* zod schemas: each returns the list of issue messages, empty when valid *)

HexChars == {HexDigits[i] : i \in 1..16} \cup {"A", "B", "C", "D", "E", "F"}

IsUuid(id) ==
    /\ Len(id) = 36
    /\ \A p \in 1..36 :
          IF p \in {9, 14, 19, 24} THEN id[p] = "-" ELSE id[p] \in HexChars

Check(bad, msg) == IF bad THEN <<msg>> ELSE <<>>

(* the title limit taken one too high *)
TitleIssuesOffByOne(title) ==
    Check(StrLen(title) < TitleMin, "Title is required")
    \o Check(StrLen(title) > TitleMax + 1, "Title must not exceed 255 characters")

(* the lower bound of the title left out *)
TitleIssuesNoMin(title) ==
    Check(StrLen(title) > TitleMax, "Title must not exceed 255 characters")

TitleIssues(title) ==
    Check(StrLen(title) < TitleMin, "Title is required")
    \o Check(StrLen(title) > TitleMax, "Title must not exceed 255 characters")

ContentIssues(content) ==
    Check(StrLen(content) > ContentMax, "Content must not exceed 10000 characters")

CategoryIssues(category) ==
    Check(StrLen(category) < CategoryMin, "Category is required")
    \o Check(StrLen(category) > CategoryMax, "Category must not exceed 50 characters")

RECURSIVE TagsIssues(_)
TagsIssues(tags) ==
    IF tags = <<>> THEN <<>>
    ELSE Check(StrLen(Head(tags)) > TagMax, "String must contain at most 30 character(s)")
         \o TagsIssues(Tail(tags))

(* zod's own message continues with the values expected and received *)
MoodIssues(mood) ==
    Check(mood # Undefined /\ mood.v \notin Moods, "Invalid enum value")

CreateNoteRequestSchemaIssues(request) ==
    TitleIssues(request.title)
    \o ContentIssues(request.content)
    \o CategoryIssues(request.category)
    \o (IF request.tags = Undefined THEN <<>> ELSE TagsIssues(request.tags.v))
    \o MoodIssues(request.mood)

CreateNoteRequestSchemaParse(request) ==
    [ title    |-> request.title,
      content  |-> request.content,
      category |-> request.category,
      tags     |-> IF request.tags = Undefined THEN <<>> ELSE request.tags.v,
      mood     |-> request.mood ]

NoteSchemaIssues(note) ==
    Check(~IsUuid(note.id), "Note ID must be a valid UUID")
    \o TitleIssues(note.title)
    \o ContentIssues(note.content)
    \o CategoryIssues(note.category)
    \o TagsIssues(note.tags)
    \o MoodIssues(note.mood)

-----------------------------------------------------------------------------
(* Map<string, Note[]>: entries in insertion order *)

MapIndex(m, k) ==
    IF \E i \in 1..Len(m) : m[i].name = k
    THEN CHOOSE i \in 1..Len(m) : m[i].name = k
    ELSE 0

MapHas(m, k) == MapIndex(m, k) # 0

MapGet(m, k) == m[MapIndex(m, k)].list

MapSet(m, k, v) ==
    IF MapHas(m, k)
    THEN [m EXCEPT ![MapIndex(m, k)].list = v]
    ELSE Append(m, [name |-> k, list |-> v])

MapDelete(m, k) ==
    IF MapHas(m, k)
    THEN SubSeq(m, 1, MapIndex(m, k) - 1) \o SubSeq(m, MapIndex(m, k) + 1, Len(m))
    ELSE m

(* Map<string, Note>: a function on the keys present *)

EmptyIdMap == [k \in {} |-> 0]

IdMapSet(m, k, v) == [j \in DOMAIN m \cup {k} |-> IF j = k THEN v ELSE m[j]]

IdMapDelete(m, k) == [j \in DOMAIN m \ {k} |-> m[j]]

-----------------------------------------------------------------------------
(* Array helpers *)

Min(a, b) == IF a < b THEN a ELSE b

(* slice taking the element at end as well *)
SliceInclusive(s, start, end) == SubSeq(s, start + 1, Min(end + 1, Len(s)))

(* slice(offset, limit) written for slice(offset, offset + limit) *)
SliceEndIsLimit(s, start, end) == SubSeq(s, start + 1, Min(end - start, Len(s)))

(* Array.prototype.slice(start, end) for 0 <= start, 0 <= end *)
Slice(s, start, end) == SubSeq(s, start + 1, Min(end, Len(s)))

(* Array.prototype.findIndex, 1-based; 0 when no element matches *)
FindIndexById(list, h, id) ==
    IF \E i \in 1..Len(list) : h[list[i]].id = id
    THEN CHOOSE i \in 1..Len(list) :
            /\ h[list[i]].id = id
            /\ \A j \in 1..(i - 1) : h[list[j]].id # id
    ELSE 0

(* Array.prototype.splice(index, 1) *)
Splice1(list, i) == SubSeq(list, 1, i - 1) \o SubSeq(list, i + 1, Len(list))

(* the comparator with its operands swapped: oldest first *)
CompareOldestFirst(h, a, b) == h[a].createdAt - h[b].createdAt

(* the comparator (a, b) => b.createdAt.getTime() - a.createdAt.getTime() *)
Compare(h, a, b) == h[b].createdAt - h[a].createdAt

(* an unstable sort: x goes before the elements it compares equal to *)
RECURSIVE InsertSortedBeforeEquals(_, _, _)
InsertSortedBeforeEquals(h, sorted, x) ==
    IF sorted = <<>> THEN <<x>>
    ELSE IF Compare(h, Head(sorted), x) < 0
         THEN <<Head(sorted)>> \o InsertSortedBeforeEquals(h, Tail(sorted), x)
         ELSE <<x>> \o sorted

(* Array.prototype.sort is stable: x goes after every element that does
   not compare greater than it *)
RECURSIVE InsertSorted(_, _, _)
InsertSorted(h, sorted, x) ==
    IF sorted = <<>> THEN <<x>>
    ELSE IF Compare(h, Head(sorted), x) <= 0
         THEN <<Head(sorted)>> \o InsertSorted(h, Tail(sorted), x)
         ELSE <<x>> \o sorted

RECURSIVE SortNewestFirst(_, _)
SortNewestFirst(h, list) ==
    IF list = <<>> THEN <<>>
    ELSE InsertSorted(h, SortNewestFirst(h, SubSeq(list, 1, Len(list) - 1)),
                      list[Len(list)])

-----------------------------------------------------------------------------
(* NotesStore methods.  A mutating method yields the store after the call  *)
(* and what it returned or threw.                                          *)

(* a note without a mood given the mood "neutral" *)
BuildNoteDefaultMood(request, id, now) ==
    [ id        |-> id,
      title     |-> request.title,
      content   |-> request.content,
      category  |-> request.category,
      tags      |-> request.tags,
      createdAt |-> now,
      updatedAt |-> now,
      mood      |-> IF request.mood = Undefined THEN Some("neutral") ELSE request.mood ]

(* updatedAt taken from a later reading of the clock *)
BuildNoteLaterUpdate(request, id, now) ==
    [ id        |-> id,
      title     |-> request.title,
      content   |-> request.content,
      category  |-> request.category,
      tags      |-> request.tags,
      createdAt |-> now,
      updatedAt |-> now + 1,
      mood      |-> request.mood ]

BuildNote(request, id, now) ==
    [ id        |-> id,
      title     |-> request.title,
      content   |-> request.content,
      category  |-> request.category,
      tags      |-> request.tags,
      createdAt |-> now,
      updatedAt |-> now,
      mood      |-> request.mood ]

StoreCreateNoteIn(h, byId, cats, request, draws, now) ==
    LET id     == GenerateId(draws)
        note   == BuildNote(request, id, now)
        issues == NoteSchemaIssues(note)
        ref    == Len(h) + 1
        withCategory ==
            IF MapHas(cats, request.category) THEN cats
            ELSE MapSet(cats, request.category, <<>>)
    IN  IF issues # <<>>
        THEN [ threw |-> TRUE, issues |-> issues, note |-> 0,
               heap |-> h, notesById |-> byId, notes |-> cats ]
        ELSE [ threw |-> FALSE, issues |-> <<>>, note |-> ref,
               heap |-> Append(h, note),
               notesById |-> IdMapSet(byId, id, ref),
               notes |-> MapSet(withCategory, request.category,
                                Append(MapGet(withCategory, request.category), ref)) ]

(* the category's array replaced by one holding only the new note *)
StoreCreateNoteReplaceList(request, draws, now) ==
    LET id     == GenerateId(draws)
        note   == BuildNote(request, id, now)
        issues == NoteSchemaIssues(note)
        ref    == Len(heap) + 1
    IN  IF issues # <<>>
        THEN [ threw |-> TRUE, issues |-> issues, note |-> 0,
               heap |-> heap, notesById |-> notesById, notes |-> notes ]
        ELSE [ threw |-> FALSE, issues |-> <<>>, note |-> ref,
               heap |-> Append(heap, note),
               notesById |-> IdMapSet(notesById, id, ref),
               notes |-> MapSet(notes, request.category, <<ref>>) ]

(* the method on the singleton store *)
StoreCreateNote(request, draws, now) ==
    StoreCreateNoteIn(heap, notesById, notes, request, draws, now)

StoreReadNotesByCategory(category, options) ==
    LET limit  == IF options.limit = Undefined \/ options.limit.twice = 0
                  THEN DefaultLimit ELSE IntOf(options.limit)
        offset == IF options.offset = Undefined \/ options.offset.twice = 0
                  THEN DefaultOffset ELSE IntOf(options.offset)
        categoryNotes == IF MapHas(notes, category) THEN MapGet(notes, category) ELSE <<>>
        sorted == SortNewestFirst(heap, categoryNotes)
    IN  [ notes |-> Slice(sorted, offset, offset + limit),
          total |-> Len(categoryNotes) ]

StoreGetNoteById(id) == IF id \in DOMAIN notesById THEN notesById[id] ELSE 0

StoreGetCategories ==
    [i \in 1..Len(notes) |-> [name |-> notes[i].name, count |-> Len(notes[i].list)]]

(* deleteNote without the clean-up of a category left empty *)
StoreDeleteNoteKeepEmpty(id) ==
    IF id \notin DOMAIN notesById
    THEN [ result |-> FALSE, notesById |-> notesById, notes |-> notes ]
    ELSE LET note == heap[notesById[id]]
             categoryNotes ==
                 IF MapHas(notes, note.category) THEN MapGet(notes, note.category) ELSE <<>>
             index == FindIndexById(categoryNotes, heap, id)
             spliced == IF index > 0 THEN Splice1(categoryNotes, index) ELSE categoryNotes
         IN  [ result |-> TRUE,
               notesById |-> IdMapDelete(notesById, id),
               notes |-> IF ~MapHas(notes, note.category) THEN notes
                         ELSE MapSet(notes, note.category, spliced) ]

StoreDeleteNote(id) ==
    IF id \notin DOMAIN notesById
    THEN [ result |-> FALSE, notesById |-> notesById, notes |-> notes ]
    ELSE LET note == heap[notesById[id]]
             categoryNotes ==
                 IF MapHas(notes, note.category) THEN MapGet(notes, note.category) ELSE <<>>
             index == FindIndexById(categoryNotes, heap, id)
             spliced == IF index > 0 THEN Splice1(categoryNotes, index) ELSE categoryNotes
         IN  [ result |-> TRUE,
               notesById |-> IdMapDelete(notesById, id),
               notes |-> IF ~MapHas(notes, note.category) THEN notes
                         ELSE IF spliced = <<>> THEN MapDelete(notes, note.category)
                         ELSE MapSet(notes, note.category, spliced) ]

(* the category map left as it is *)
StoreClearIdsOnly == [ notesById |-> EmptyIdMap, notes |-> notes ]

StoreClear == [ notesById |-> EmptyIdMap, notes |-> <<>> ]

-----------------------------------------------------------------------------
(* Exported API *)

(* limit checked as non-negative instead of positive *)
LimitIssuesNonNegative(limit) ==
    IF limit = Undefined THEN <<>>
    ELSE Check(~IsInteger(limit), "Expected integer, received float")
         \o Check(limit.twice < 0, "Number must be greater than 0")

LimitIssues(limit) ==
    IF limit = Undefined THEN <<>>
    ELSE Check(~IsInteger(limit), "Expected integer, received float")
         \o Check(limit.twice <= 0, "Number must be greater than 0")

OffsetIssues(offset) ==
    IF offset = Undefined THEN <<>>
    ELSE Check(~IsInteger(offset), "Expected integer, received float")
         \o Check(offset.twice < 0, "Number must be greater than or equal to 0")

ReadNotesByCategoryRequestSchemaIssues(request) ==
    Check(StrLen(request.category) < 1, "Category is required")
    \o LimitIssues(request.limit)
    \o OffsetIssues(request.offset)

ReadNotesByCategoryRequestSchemaParse(request) ==
    [ category |-> request.category,
      limit    |-> IF request.limit = Undefined THEN Num(DefaultLimit) ELSE request.limit,
      offset   |-> IF request.offset = Undefined THEN Num(DefaultOffset) ELSE request.offset ]

(* readNotesByCategory treating a category without notes as an error *)
readNotesByCategoryStrict(category, options) ==
    LET request ==
            [ category |-> category,
              limit    |-> IF options = Undefined THEN Undefined ELSE options.limit,
              offset   |-> IF options = Undefined THEN Undefined ELSE options.offset ]
        issues == ReadNotesByCategoryRequestSchemaIssues(request)
        validated == ReadNotesByCategoryRequestSchemaParse(request)
        found == StoreReadNotesByCategory(validated.category,
                     [limit |-> validated.limit, offset |-> validated.offset])
    IN  IF issues # <<>>
        THEN [ status |-> "error", issues |-> issues ]
        ELSE IF found.total = 0
        THEN [ status |-> "error", issues |-> <<"Category not found">> ]
        ELSE [ status |-> "success",
               data |-> [ notes |-> found.notes, total |-> found.total,
                          category |-> validated.category ] ]

(* options is Undefined when the argument is omitted *)
readNotesByCategory(category, options) ==
    LET request ==
            [ category |-> category,
              limit    |-> IF options = Undefined THEN Undefined ELSE options.limit,
              offset   |-> IF options = Undefined THEN Undefined ELSE options.offset ]
        issues == ReadNotesByCategoryRequestSchemaIssues(request)
        validated == ReadNotesByCategoryRequestSchemaParse(request)
        found == StoreReadNotesByCategory(validated.category,
                     [limit |-> validated.limit, offset |-> validated.offset])
    IN  IF issues # <<>>
        THEN [ status |-> "error", issues |-> issues ]
        ELSE [ status |-> "success",
               data |-> [ notes |-> found.notes, total |-> found.total,
                          category |-> validated.category ] ]

getNoteById(id) == StoreGetNoteById(id)

getCategories == StoreGetCategories

(* createNote indexing the note by id before anything is validated *)
CreateNoteOutcomeEager(request, draws, now) ==
    LET issues == CreateNoteRequestSchemaIssues(request)
        parsed == CreateNoteRequestSchemaParse(request)
        id     == GenerateId(draws)
        early  == [ heap |-> Append(heap, BuildNote(parsed, id, now)),
                    notesById |-> IdMapSet(notesById, id, Len(heap) + 1) ]
        stored == StoreCreateNote(parsed, draws, now)
    IN  IF issues # <<>> \/ stored.threw
        THEN [ status |-> "error", issues |-> issues, data |-> 0,
               heap |-> early.heap, notesById |-> early.notesById, notes |-> notes ]
        ELSE [ status |-> "success", issues |-> <<>>, data |-> stored.note,
               heap |-> stored.heap, notesById |-> stored.notesById,
               notes |-> stored.notes ]

(* the outcome of createNote(request): the store after the call and the
   response returned or the error thrown *)
CreateNoteOutcome(request, draws, now) ==
    LET issues == CreateNoteRequestSchemaIssues(request)
        stored == StoreCreateNote(CreateNoteRequestSchemaParse(request), draws, now)
    IN  IF issues # <<>>
        THEN [ status |-> "error", issues |-> issues, data |-> 0,
               heap |-> heap, notesById |-> notesById, notes |-> notes ]
        ELSE IF stored.threw
        THEN [ status |-> "error", issues |-> stored.issues, data |-> 0,
               heap |-> stored.heap, notesById |-> stored.notesById,
               notes |-> stored.notes ]
        ELSE [ status |-> "success", issues |-> <<>>, data |-> stored.note,
               heap |-> stored.heap, notesById |-> stored.notesById,
               notes |-> stored.notes ]

(* createNote called on the store (h, byId, cats): the same steps, for the
   calls a caller makes one after the other without returning in between *)
CreateNoteOutcomeIn(h, byId, cats, request, draws, now) ==
    LET issues == CreateNoteRequestSchemaIssues(request)
        stored == StoreCreateNoteIn(h, byId, cats,
                                    CreateNoteRequestSchemaParse(request), draws, now)
    IN  IF issues # <<>>
        THEN [ status |-> "error", issues |-> issues, data |-> 0,
               heap |-> h, notesById |-> byId, notes |-> cats ]
        ELSE IF stored.threw
        THEN [ status |-> "error", issues |-> stored.issues, data |-> 0,
               heap |-> stored.heap, notesById |-> stored.notesById,
               notes |-> stored.notes ]
        ELSE [ status |-> "success", issues |-> <<>>, data |-> stored.note,
               heap |-> stored.heap, notesById |-> stored.notesById,
               notes |-> stored.notes ]

-----------------------------------------------------------------------------
(* Inputs *)

ValidRequests ==
    { [ title |-> Str("a", TitleMin), content |-> Str("x", 0),
        category |-> Str("C", CategoryMin),
        tags |-> Undefined, mood |-> Undefined ],
      [ title |-> Str("b", TitleMax), content |-> Str("x", ContentMax),
        category |-> Str("D", CategoryMax),
        tags |-> Some(<<Str("t", TagMax)>>), mood |-> Some("calm") ] }

BaseRequest ==
    [ title |-> Str("a", 1), content |-> Str("x", 1), category |-> Str("C", 1),
      tags |-> Some(<<>>), mood |-> Undefined ]

InvalidRequests ==
    { [BaseRequest EXCEPT !.title = Str("a", 0)],
      [BaseRequest EXCEPT !.title = Str("a", TitleMax + 1)],
      [BaseRequest EXCEPT !.content = Str("x", ContentMax + 1)],
      [BaseRequest EXCEPT !.category = Str("C", 0)],
      [BaseRequest EXCEPT !.category = Str("C", CategoryMax + 1)],
      [BaseRequest EXCEPT !.tags = Some(<<Str("t", 1), Str("t", TagMax + 1)>>)],
      [BaseRequest EXCEPT !.mood = Some("angry")],
      [BaseRequest EXCEPT !.title = Str("a", 0), !.category = Str("C", 0)] }

CreateInputs == ValidRequests \cup InvalidRequests

DrawInputs == { [i \in 1..NumDraws |-> 0], [i \in 1..NumDraws |-> IF i = 16 THEN 7 ELSE 15] }

IdInputs == { GenerateId(d) : d \in DrawInputs }

TimeInputs == 0..MaxTime

CategoryInputs ==
    { Str("C", 1), Str("D", CategoryMax), Str("E", 1), Str("C", 0),
      Str("C", CategoryMax + 1) }

LimitInputs == { Num(n) : n \in 1..MaxLimit }

OffsetInputs == { Num(n) : n \in 0..MaxLimit }

(* numbers that are not positive integers, and not non-negative integers *)
InvalidLimitInputs == { Num(0), Num(-1), Half(1), Half(3), Half(-1) }

InvalidOffsetInputs == { Num(-1), Half(1), Half(-1) }

(* the calls of readNotesByCategory taken as steps *)
ReadCallInputs ==
    { [ category |-> Str("C", 1), options |-> Undefined ],
      [ category |-> Str("D", CategoryMax),
        options |-> [limit |-> Num(1), offset |-> Num(1)] ],
      [ category |-> Str("C", 0), options |-> Undefined ],
      [ category |-> Str("C", 1), options |-> [limit |-> Num(0), offset |-> Undefined] ],
      [ category |-> Str("C", 1), options |-> [limit |-> Half(3), offset |-> Num(0)] ],
      [ category |-> Str("C", 1), options |-> [limit |-> Undefined, offset |-> Num(-1)] ],
      [ category |-> Str("D", CategoryMax),
        options |-> [limit |-> Num(1), offset |-> Half(1)] ] }

-----------------------------------------------------------------------------
(* State machine *)

Init ==
    /\ heap = <<>>
    /\ notesById = EmptyIdMap
    /\ notes = <<>>
    /\ ret = [op |-> "init"]
    /\ hasSeeded = FALSE

(* Math.random and new Date are consulted only once the request has passed
   CreateNoteRequestSchema *)
CreateNote(request) ==
    \E draws \in IF CreateNoteRequestSchemaIssues(request) = <<>>
                  THEN DrawInputs ELSE {[i \in 1..NumDraws |-> 0]},
       now \in IF CreateNoteRequestSchemaIssues(request) = <<>>
                THEN TimeInputs ELSE {0} :
        LET out == CreateNoteOutcome(request, draws, now)
        IN  /\ out.status = "success" => Len(heap) < MaxNotes
            /\ heap' = out.heap
            /\ notesById' = out.notesById
            /\ notes' = out.notes
            /\ ret' = [ op |-> "createNote", status |-> out.status,
                        data |-> out.data ]
            /\ UNCHANGED hasSeeded

DeleteNote(id) ==
    LET out == StoreDeleteNote(id)
    IN  /\ notesById' = out.notesById
        /\ notes' = out.notes
        /\ ret' = [ op |-> "deleteNote", id |-> id, result |-> out.result ]
        /\ UNCHANGED <<heap, hasSeeded>>

ClearAllNotes ==
    /\ notesById' = StoreClear.notesById
    /\ notes' = StoreClear.notes
    /\ ret' = [ op |-> "clearAllNotes" ]
    /\ UNCHANGED <<heap, hasSeeded>>

(* the sort works on a copy of the category's array: no field of the store
   is assigned *)
ReadNotesByCategory(category, options) ==
    /\ ret' = [ op |-> "readNotesByCategory",
                status |-> readNotesByCategory(category, options).status ]
    /\ UNCHANGED <<heap, notesById, notes, hasSeeded>>

(* the calls that write to the store *)
Writes ==
    \/ \E request \in CreateInputs : CreateNote(request)
    \/ \E id \in IdInputs : DeleteNote(id)
    \/ ClearAllNotes

Next ==
    \/ Writes
    \/ \E call \in ReadCallInputs : ReadNotesByCategory(call.category, call.options)

Spec == Init /\ [][Next]_vars

(* The caller of createNote assigns to a property of the note it was just
   handed.  createNote returns the stored object itself, as getNoteById and
   readNotesByCategory do. *)
CallerWrite ==
    /\ ret.op = "createNote"
    /\ ret.status = "success"
    /\ heap' = [heap EXCEPT ![ret.data].title = Str("z", 1)]
    /\ ret' = [ op |-> "callerWrite", ref |-> ret.data ]
    /\ UNCHANGED <<notesById, notes, hasSeeded>>

(* the Note objects the store refers to, from either index *)
StoredRefs ==
    { notesById[k] : k \in DOMAIN notesById }
    \cup UNION { { notes[i].list[j] : j \in 1..Len(notes[i].list) } : i \in 1..Len(notes) }

NextAlias ==
    \/ Writes
    \/ CallerWrite

SpecAlias == Init /\ [][NextAlias]_vars

(* generateId on its own: the 31 draws of one call, every value 0..15 at
   every position beside all-0 or all-15 at the others *)
IdDraws ==
    { [i \in 1..NumDraws |-> IF i = k THEN v ELSE w] :
        k \in 1..NumDraws, v \in 0..15, w \in {0, 15} }

GenerateIdCall(draws) ==
    /\ ret' = [ op |-> "generateId", draws |-> draws, id |-> GenerateId(draws) ]
    /\ UNCHANGED <<heap, notesById, notes, hasSeeded>>

NextId == \E draws \in IdDraws : GenerateIdCall(draws)

SpecId == Init /\ [][NextId]_vars

(* ensureSeedNotes, called by resolveCategories on every render of a page.
   The sample notes keep the lengths of their fields; one character stands
   for each text. *)
SampleNotes ==
    << [ title |-> Str("p", 13), content |-> Str("p", 45), category |-> Str("P", 6),
         tags |-> Some(<<Str("t", 3), Str("u", 4)>>), mood |-> Some("reflective") ],
       [ title |-> Str("q", 11), content |-> Str("q", 37), category |-> Str("Q", 5),
         tags |-> Some(<<Str("t", 4), Str("u", 4)>>), mood |-> Some("inspired") ],
       [ title |-> Str("r", 11), content |-> Str("r", 38), category |-> Str("R", 6),
         tags |-> Some(<<Str("t", 4), Str("u", 4)>>), mood |-> Some("grateful") ],
       [ title |-> Str("s", 7), content |-> Str("s", 35), category |-> Str("S", 5),
         tags |-> Some(<<Str("t", 2), Str("u", 2)>>), mood |-> Some("calm") ] >>

(* sampleNotes.forEach(createNote): the k-th call draws draws[k] and reads
   the clock as times[k]; a failed call is ignored *)
RECURSIVE SeedSampleNotes(_, _, _, _)
SeedSampleNotes(store, k, draws, times) ==
    IF k > Len(SampleNotes) THEN store
    ELSE LET out == CreateNoteOutcomeIn(store.heap, store.notesById, store.notes,
                                        SampleNotes[k], draws[k], times[k])
         IN  SeedSampleNotes([ heap |-> out.heap, notesById |-> out.notesById,
                               notes |-> out.notes ], k + 1, draws, times)

(* hasSeeded not consulted *)
ShouldSeedWheneverEmpty == ~(Len(getCategories) > 0)

(* neither early return is taken *)
ShouldSeed == ~hasSeeded /\ ~(Len(getCategories) > 0)

(* after either early return hasSeeded is true: it was, or it is set *)
EnsureSeedNotes ==
    \E draws \in IF ShouldSeed THEN [1..Len(SampleNotes) -> DrawInputs]
                  ELSE {[k \in 1..Len(SampleNotes) |-> [i \in 1..NumDraws |-> 0]]},
       times \in IF ShouldSeed THEN [1..Len(SampleNotes) -> TimeInputs]
                  ELSE {[k \in 1..Len(SampleNotes) |-> 0]} :
        LET seeded == SeedSampleNotes([ heap |-> heap, notesById |-> notesById,
                                         notes |-> notes ], 1, draws, times)
        IN  IF ShouldSeed
            THEN /\ heap' = seeded.heap
                 /\ notesById' = seeded.notesById
                 /\ notes' = seeded.notes
                 /\ hasSeeded' = TRUE
                 /\ ret' = [ op |-> "ensureSeedNotes",
                             created |-> Len(seeded.heap) - Len(heap) ]
            ELSE /\ hasSeeded' = TRUE
                 /\ ret' = [ op |-> "ensureSeedNotes", created |-> 0 ]
                 /\ UNCHANGED <<heap, notesById, notes>>

(* a note saved through the form *)
UserCreateNote(request) ==
    /\ Len(heap) < MaxUserNotes
    /\ CreateNote(request)

NextSeed ==
    \/ EnsureSeedNotes
    \/ \E request \in CreateInputs : UserCreateNote(request)
    \/ \E id \in IdInputs : DeleteNote(id)
    \/ ClearAllNotes

SpecSeed == Init /\ [][NextSeed]_vars

-----------------------------------------------------------------------------
(* What a caller observes *)

Deref(refs) == [i \in 1..Len(refs) |-> heap[refs[i]]]

ViewById(id) == IF getNoteById(id) = 0 THEN <<>> ELSE <<heap[getNoteById(id)]>>

ViewRead(category, options) ==
    LET r == readNotesByCategory(category, options)
    IN  IF r.status = "success"
        THEN [ status |-> "success", notes |-> Deref(r.data.notes),
               total |-> r.data.total, category |-> r.data.category ]
        ELSE [ status |-> "error", notes |-> <<>>, total |-> 0, category |-> category ]

StoredIn(category) == { r \in StoredRefs : heap[r].category = category }

ReadOptions ==
    {Undefined} \cup { [limit |-> l, offset |-> o] : l \in LimitInputs, o \in OffsetInputs }

LimitOf(options) == IF options = Undefined THEN DefaultLimit ELSE IntOf(options.limit)

-----------------------------------------------------------------------------
(* C1: every successful create returns a note whose id differs from the id
   of every note created earlier.  heap holds every note created, in order
   of creation. *)
C1_CreatedIdsDistinct ==
    \A r1, r2 \in 1..Len(heap) : r1 # r2 => heap[r1].id # heap[r2].id

(* C2: as long as neither deleteNote(n.id) nor clearAllNotes is called,
   getNoteById(n.id) keeps returning a note equal to n in every field; stated
   for a single step, which gives the claim for every sequence of steps. *)
C2_GetByIdStable ==
    [][ \A id \in IdInputs :
          ( /\ getNoteById(id) # 0
            /\ ~(ret'.op = "deleteNote" /\ ret'.id = id)
            /\ ret'.op # "clearAllNotes" )
          => ViewById(id)' = ViewById(id) ]_vars

(* C3: after deleteNote(id) returned true, getNoteById(id) is null, no
   category read returns a note with that id, and a category whose only note
   was deleted is no longer listed by getCategories. *)
C3_DeleteRemoves ==
    [][ \A id \in IdInputs :
          (ret'.op = "deleteNote" /\ ret'.id = id /\ ret'.result) =>
            LET deleted == heap[notesById[id]]
                wasOnly == Cardinality(StoredIn(deleted.category)) = 1
            IN  /\ getNoteById(id)' = 0
                /\ \A c \in CategoryInputs :
                      \A i \in 1..Len(ViewRead(c, Undefined)'.notes) :
                          ViewRead(c, Undefined)'.notes[i].id # id
                /\ wasOnly =>
                      \A i \in 1..Len(getCategories') :
                          getCategories'[i].name # deleted.category ]_vars

(* C4: a createNote that fails validation leaves the id index, every
   category sequence, the notes in them and the result of getCategories as
   they were. *)
C4_FailedCreateLeavesStore ==
    [][ (ret'.op = "createNote" /\ ret'.status = "error") =>
          /\ notesById' = notesById
          /\ notes' = notes
          /\ heap' = heap
          /\ getCategories' = getCategories ]_vars

C4_Witness ==
    /\ ret.op = "createNote"
    /\ ret.status = "error"
    /\ Len(notes) = 2
    /\ Cardinality(DOMAIN notesById) = 2

(* C5: every note the store holds, in the id index or in a category
   sequence, satisfies the field constraints of the schema. *)
C5_StoredNotesConform ==
    \A r \in StoredRefs :
        LET n == heap[r]
        IN  /\ StrLen(n.title) >= 1 /\ StrLen(n.title) <= 255
            /\ StrLen(n.content) >= 0 /\ StrLen(n.content) <= 10000
            /\ StrLen(n.category) >= 1 /\ StrLen(n.category) <= 50
            /\ \A i \in 1..Len(n.tags) : StrLen(n.tags[i]) <= 30
            /\ \/ n.mood = Undefined
               \/ n.mood.v \in {"calm", "inspired", "reflective", "grateful", "neutral"}

C5_Witness ==
    /\ \E r \in StoredRefs :
          /\ StrLen(heap[r].title) = 255
          /\ StrLen(heap[r].content) = 10000
          /\ StrLen(heap[r].category) = 50
          /\ heap[r].mood # Undefined
    /\ \E r \in StoredRefs : StrLen(heap[r].title) = 1 /\ heap[r].mood = Undefined
    /\ ret.op = "createNote"
    /\ ret.status = "error"

(* C6: writing to a property of a note object handed out by the store does
   not change what getNoteById, readNotesByCategory or getCategories return
   afterwards. *)
C6_NoAliasing ==
    [][ ret'.op = "callerWrite" =>
          /\ \A id \in IdInputs : ViewById(id)' = ViewById(id)
          /\ \A c \in CategoryInputs : ViewRead(c, Undefined)' = ViewRead(c, Undefined)
          /\ getCategories' = getCategories ]_vars

(* C7 as stated: for every category string without notes in the store,
   readNotesByCategory(category) succeeds with notes = [], total = 0 and the
   same category. *)
C7_AnyCategoryWithoutNotes ==
    \A c \in CategoryInputs :
        StoredIn(c) = {} =>
            readNotesByCategory(c, Undefined) =
                [ status |-> "success",
                  data |-> [ notes |-> <<>>, total |-> 0, category |-> c ] ]

(* C7 amended: for every non-empty category string without notes in the
   store, readNotesByCategory(category) succeeds with notes = [], total = 0
   and the same category; for the empty string it fails validation. *)
C7_NonEmptyCategoryWithoutNotes ==
    \A c \in CategoryInputs :
        StoredIn(c) = {} =>
            IF StrLen(c) >= 1
            THEN readNotesByCategory(c, Undefined) =
                    [ status |-> "success",
                      data |-> [ notes |-> <<>>, total |-> 0, category |-> c ] ]
            ELSE readNotesByCategory(c, Undefined) =
                    [ status |-> "error", issues |-> <<"Category is required">> ]

C7_Witness ==
    /\ ret.op = "deleteNote"
    /\ ret.result
    /\ StoredIn(Str("C", 1)) = {}
    /\ StoredIn(Str("D", 50)) # {}
    /\ readNotesByCategory(Str("C", 1), Undefined).status = "success"

(* C8: for every category, positive integer limit and non-negative integer
   offset, readNotesByCategory returns at most limit notes and a total equal
   to the number of notes stored in that category. *)
C8_LimitAndTotal ==
    \A c \in CategoryInputs, options \in ReadOptions :
        LET r == readNotesByCategory(c, options)
        IN  r.status = "success" =>
              /\ Len(r.data.notes) <= LimitOf(options)
              /\ r.data.total = Cardinality(StoredIn(c))

C8_Witness ==
    \E c \in CategoryInputs :
        LET r == readNotesByCategory(c, [limit |-> Num(2), offset |-> Num(0)])
        IN  /\ r.status = "success"
            /\ r.data.total = 3
            /\ Len(r.data.notes) = 2
            /\ readNotesByCategory(c, [limit |-> Num(2), offset |-> Num(2)]).data.total = 3

(* C9: the notes readNotesByCategory returns all have the category asked
   for and are in order of createdAt, newest first. *)
C9_NewestFirst ==
    \A c \in CategoryInputs, options \in ReadOptions :
        LET v == ViewRead(c, options)
        IN  v.status = "success" =>
              /\ \A i \in 1..Len(v.notes) : v.notes[i].category = c
              /\ \A i \in 1..(Len(v.notes) - 1) :
                    v.notes[i].createdAt >= v.notes[i + 1].createdAt

C9_Witness ==
    \E i \in 1..Len(notes) :
        LET list == notes[i].list
            v    == ViewRead(notes[i].name, Undefined)
        IN  /\ Len(list) = 3
            /\ heap[list[1]].createdAt < heap[list[2]].createdAt
            /\ heap[list[3]].createdAt < heap[list[2]].createdAt
            /\ v.notes[1] = heap[list[2]]

(* C10: getCategories returns exactly one entry for each category that has
   a stored note, with the number of notes stored in it as count, and no
   entry with count 0. *)
C10_CategoriesListed ==
    LET cats == getCategories
    IN  /\ { cats[i].name : i \in 1..Len(cats) } = { heap[r].category : r \in StoredRefs }
        /\ \A i, j \in 1..Len(cats) : cats[i].name = cats[j].name => i = j
        /\ \A i \in 1..Len(cats) :
              /\ cats[i].count = Cardinality(StoredIn(cats[i].name))
              /\ cats[i].count # 0

C10_Witness ==
    /\ ret.op = "deleteNote"
    /\ ret.result
    /\ Len(heap) = 3
    /\ Len(getCategories) = 1
    /\ getCategories[1].count = 2

(* C11: deleteNote(id) returns true exactly when a note with that id was
   stored just before the call; when it returns false the store is left as
   it was, and a second deleteNote of the same id returns false. *)
C11_DeleteResult ==
    [][ \A id \in IdInputs :
          (ret'.op = "deleteNote" /\ ret'.id = id) =>
            /\ ret'.result = (\E r \in StoredRefs : heap[r].id = id)
            /\ ~ret'.result =>
                  /\ notesById' = notesById
                  /\ notes' = notes
                  /\ heap' = heap
            /\ (ret.op = "deleteNote" /\ ret.id = id) => ~ret'.result ]_vars

-----------------------------------------------------------------------------
(* C12: readNotesByCategory fails validation whenever limit is not a
   positive integer or offset is not a non-negative integer; an omitted limit
   reads as 100 and an omitted offset as 0; a failed call leaves the store as
   it was. *)
ReadCategories == { Str("C", 1), Str("D", CategoryMax), Str("E", 1) }

AllLimits == LimitInputs \cup InvalidLimitInputs \cup {Undefined}

AllOffsets == OffsetInputs \cup InvalidOffsetInputs \cup {Undefined}

PositiveInteger(x) == x.twice % 2 = 0 /\ x.twice > 0

NonNegativeInteger(x) == x.twice % 2 = 0 /\ x.twice >= 0

ReadValidation ==
    /\ \A c \in ReadCategories, l \in AllLimits, o \in AllOffsets :
          (readNotesByCategory(c, [limit |-> l, offset |-> o]).status = "error")
            = ( \/ (l # Undefined /\ ~PositiveInteger(l))
                \/ (o # Undefined /\ ~NonNegativeInteger(o)) )
    /\ \A c \in ReadCategories :
          /\ readNotesByCategory(c, Undefined)
               = readNotesByCategory(c, [limit |-> Num(100), offset |-> Num(0)])
          /\ \A l \in LimitInputs :
                readNotesByCategory(c, [limit |-> l, offset |-> Undefined])
                  = readNotesByCategory(c, [limit |-> l, offset |-> Num(0)])
          /\ \A o \in OffsetInputs :
                readNotesByCategory(c, [limit |-> Undefined, offset |-> o])
                  = readNotesByCategory(c, [limit |-> Num(100), offset |-> o])

(* a failed read can be taken from every state, so the first conjunct is
   checked for every content of the store *)
C12_ReadValidation ==
    [][ (ret'.op = "readNotesByCategory" /\ ret'.status = "error") =>
          /\ ReadValidation
          /\ notesById' = notesById
          /\ notes' = notes
          /\ heap' = heap ]_vars

C12_Witness ==
    /\ ret.op = "readNotesByCategory"
    /\ ret.status = "error"
    /\ Cardinality(StoredIn(Str("C", 1))) = 2
    /\ readNotesByCategory(Str("C", 1), [limit |-> Num(0), offset |-> Undefined]).status
         = "error"
    /\ Len(readNotesByCategory(Str("C", 1), Undefined).data.notes) = 2

(* C13: createNote accepts a title exactly when its length is between 1 and
   255 inclusive, the other fields being valid: the empty title and the title
   of 256 characters fail, the title of 255 characters succeeds.  Stated for
   every content of the store: the call's outcome from the current state. *)
TitleLengths == { 0, 1, 2, 128, 254, 255, 256, 257 }

C13_TitleLength ==
    \A len \in TitleLengths, draws \in DrawInputs, now \in TimeInputs :
        LET out == CreateNoteOutcome([BaseRequest EXCEPT !.title = Str("a", len)],
                                     draws, now)
        IN  /\ (out.status = "success") = (len >= 1 /\ len <= 255)
            /\ out.status = "success" => StrLen(out.heap[out.data].title) = len

C13_Witness ==
    /\ ret.op = "createNote"
    /\ ret.status = "error"
    /\ \E r \in StoredRefs : StrLen(heap[r].title) = 255
    /\ \E r \in StoredRefs : StrLen(heap[r].title) = 1
    /\ \A draws \in DrawInputs :
          /\ CreateNoteOutcome([BaseRequest EXCEPT !.title = Str("a", 256)],
                               draws, 0).status = "error"
          /\ CreateNoteOutcome([BaseRequest EXCEPT !.title = Str("a", 0)],
                               draws, 0).status = "error"
          /\ CreateNoteOutcome([BaseRequest EXCEPT !.title = Str("a", 255)],
                               draws, 0).status = "success"

(* C14: from a store with no note in category C, createNote with only title,
   content and category C succeeds and returns a note with tags = [] and no
   mood; readNotesByCategory(C) then returns total = 1 with that note first;
   deleteNote of the returned id then returns true and getCategories() has no
   entry named C.  The three conjuncts are the three steps: the create
   establishes JustCreated for its note, a read keeps the store as it is, and
   deleteNote of a note for which JustCreated holds has the result claimed. *)
ScenarioRequest ==
    [ title |-> Str("a", 1), content |-> Str("x", 0), category |-> Str("C", 1),
      tags |-> Undefined, mood |-> Undefined ]

Listed(category) == \E i \in 1..Len(getCategories) : getCategories[i].name = category

JustCreated(ref) ==
    /\ ref \in 1..Len(heap)
    /\ heap[ref].category = ScenarioRequest.category
    /\ getNoteById(heap[ref].id) = ref
    /\ StoredIn(ScenarioRequest.category) = {ref}
    /\ LET r == readNotesByCategory(ScenarioRequest.category, Undefined)
       IN  /\ r.status = "success"
           /\ r.data.total = 1
           /\ r.data.notes = <<ref>>

C14_Scenario ==
    [][ /\ \A draws \in DrawInputs, now \in TimeInputs :
              LET out == CreateNoteOutcome(ScenarioRequest, draws, now)
              IN  ( /\ StoredIn(ScenarioRequest.category) = {}
                    /\ ret'.op = "createNote"
                    /\ heap' = out.heap
                    /\ notesById' = out.notesById
                    /\ notes' = out.notes )
                  => /\ ret'.status = "success"
                     /\ out.status = "success"
                     /\ ret'.data = out.data
                     /\ heap'[out.data].title = ScenarioRequest.title
                     /\ heap'[out.data].content = ScenarioRequest.content
                     /\ heap'[out.data].tags = <<>>
                     /\ heap'[out.data].mood = Undefined
                     /\ \A ref \in 1..MaxNotes : out.data = ref => JustCreated(ref)'
        /\ \A ref \in 1..MaxNotes :
              (JustCreated(ref) /\ ret'.op = "readNotesByCategory")
                => (ret'.status = "success" => JustCreated(ref)')
        /\ \A ref \in 1..MaxNotes :
              ( /\ JustCreated(ref)
                /\ ret'.op = "deleteNote"
                /\ ret'.id = heap[ref].id )
              => /\ ret'.result = TRUE
                 /\ ~Listed(ScenarioRequest.category)' ]_vars

(* the scenario run to its end beside a note of another category *)
C14_Witness ==
    /\ Len(heap) = 2
    /\ heap[1].category = Str("D", CategoryMax)
    /\ heap[2].category = ScenarioRequest.category
    /\ heap[2].tags = <<>>
    /\ heap[2].mood = Undefined
    /\ ret = [ op |-> "deleteNote", id |-> heap[2].id, result |-> TRUE ]
    /\ ~Listed(ScenarioRequest.category)
    /\ Listed(Str("D", CategoryMax))

(* C15: after clearAllNotes(), whatever came before it, getCategories()
   returns an empty list, getNoteById returns null for every id, and
   readNotesByCategory returns notes = [] and total = 0 for every category
   (the empty string is not a category: C7). *)
C15_ClearEmpties ==
    ret.op = "clearAllNotes" =>
        /\ getCategories = <<>>
        /\ \A id \in IdInputs : getNoteById(id) = 0
        /\ \A r \in 1..Len(heap) : getNoteById(heap[r].id) = 0
        /\ StoredRefs = {}
        /\ \A c \in ReadCategories, options \in ReadOptions :
              LET r == readNotesByCategory(c, options)
              IN  /\ r.status = "success"
                  /\ r.data.notes = <<>>
                  /\ r.data.total = 0

(* a clear after three creates into both categories *)
C15_Witness ==
    /\ ret.op = "clearAllNotes"
    /\ Len(heap) = MaxNotes
    /\ \E r \in 1..Len(heap) : heap[r].category = Str("C", 1)
    /\ \E r \in 1..Len(heap) : heap[r].category = Str("D", CategoryMax)
    /\ getCategories = <<>>

(* C16: every note returned by create, and every note the store holds in
   any reachable state, has createdAt equal to updatedAt.  heap holds every
   note a create returned. *)
C16_CreatedEqualsUpdated ==
    /\ \A r \in 1..Len(heap) : heap[r].createdAt = heap[r].updatedAt
    /\ \A r \in StoredRefs : heap[r].createdAt = heap[r].updatedAt
    /\ (ret.op = "createNote" /\ ret.status = "success") =>
          heap[ret.data].createdAt = heap[ret.data].updatedAt

C16_Witness ==
    /\ ret.op = "createNote"
    /\ ret.status = "success"
    /\ heap[ret.data].createdAt = MaxTime
    /\ heap[ret.data].updatedAt = MaxTime
    /\ \E r \in StoredRefs : heap[r].createdAt = 0 /\ heap[r].updatedAt = 0

(* C17: readNotesByCategory returns exactly the elements at positions
   offset .. offset+limit-1 of the category's notes sorted newest-first, so
   the result has min(limit, max(0, total - offset)) notes; the pages read at
   offsets 0, limit, 2*limit, ... of an unchanged store concatenate to the
   full sorted sequence with no note repeated or omitted; an offset >= total
   gives an empty list with the same total. *)
Max(a, b) == IF a > b THEN a ELSE b

PageNotes(c, limit, offset) ==
    readNotesByCategory(c, [limit |-> Num(limit), offset |-> Num(offset)]).data.notes

RECURSIVE Pages(_, _, _, _)
Pages(c, limit, offset, total) ==
    IF offset >= total THEN PageNotes(c, limit, offset)
    ELSE PageNotes(c, limit, offset) \o Pages(c, limit, offset + limit, total)

C17_ExactPage ==
    \A c \in ReadCategories :
        LET whole == readNotesByCategory(c, Undefined).data
            full  == whole.notes
            total == whole.total
        IN  /\ Len(full) = total
            /\ { full[i] : i \in 1..total } = StoredIn(c)
            /\ \A i, j \in 1..total : i # j => full[i] # full[j]
            /\ \A i \in 1..(total - 1) :
                  heap[full[i]].createdAt >= heap[full[i + 1]].createdAt
            /\ \A limit \in 1..MaxLimit, offset \in 0..(MaxNotes + 2) :
                  LET r == readNotesByCategory(c, [limit |-> Num(limit),
                                                   offset |-> Num(offset)])
                      n == Min(limit, Max(0, total - offset))
                  IN  /\ r.status = "success"
                      /\ r.data.total = total
                      /\ Len(r.data.notes) = n
                      /\ r.data.notes = [i \in 1..n |-> full[offset + i]]
                      /\ offset >= total => r.data.notes = <<>>
            /\ \A limit \in 1..MaxLimit : Pages(c, limit, 0, total) = full

(* three notes read in pages of two: two notes, then one, then none *)
C17_Witness ==
    \E c \in ReadCategories :
        LET full == readNotesByCategory(c, Undefined).data.notes
        IN  /\ Len(full) = 3
            /\ PageNotes(c, 2, 0) = <<full[1], full[2]>>
            /\ PageNotes(c, 2, 2) = <<full[3]>>
            /\ PageNotes(c, 2, 4) = <<>>
            /\ heap[full[1]].createdAt > heap[full[3]].createdAt
            /\ readNotesByCategory(c, [limit |-> Num(2), offset |-> Num(4)]).data.total = 3

(* C18: the sort in readNotesByCategory is stable: two notes of the same
   category with equal createdAt are returned in the order they were created,
   and deleting another note of that category does not change their relative
   order.  A note created later has the greater index in heap, so in every
   reachable state, the states after a delete among them, notes with equal
   createdAt appear in the order of their heap indexes; the second conjunct
   states the delete step itself. *)
PositionIn(seq, x) == CHOOSE i \in 1..Len(seq) : seq[i] = x

CreationOrderAmongEquals(full) ==
    \A i, j \in 1..Len(full) :
        (i < j /\ heap[full[i]].createdAt = heap[full[j]].createdAt)
          => full[i] < full[j]

C18_StableSort ==
    [][ /\ \A c \in ReadCategories :
              CreationOrderAmongEquals(readNotesByCategory(c, Undefined).data.notes)
        /\ (ret'.op = "deleteNote" /\ ret'.result) =>
              \A c \in ReadCategories :
                  LET before == readNotesByCategory(c, Undefined).data.notes
                  IN  \A a, b \in StoredIn(c) :
                        ( /\ a \in StoredIn(c)'
                          /\ b \in StoredIn(c)'
                          /\ heap[a].createdAt = heap[b].createdAt
                          /\ PositionIn(before, a) < PositionIn(before, b) )
                        => \A i, j \in 1..MaxNotes :
                              ( /\ i <= Len(readNotesByCategory(c, Undefined).data.notes')
                                /\ j <= Len(readNotesByCategory(c, Undefined).data.notes')
                                /\ readNotesByCategory(c, Undefined).data.notes'[i] = a
                                /\ readNotesByCategory(c, Undefined).data.notes'[j] = b )
                              => i < j ]_vars

(* the oldest of three notes of one category, all with the same createdAt,
   has just been deleted and the other two are returned in creation order *)
C18_Witness ==
    /\ ret.op = "deleteNote"
    /\ ret.result
    /\ Len(heap) = 3
    /\ heap[1].id = ret.id
    /\ \A r \in 1..3 : heap[r].category = Str("C", 1) /\ heap[r].createdAt = 0
    /\ readNotesByCategory(Str("C", 1), Undefined).data.notes = <<2, 3>>

(* C19: for every outcome of the sixteen-valued draw at each position,
   generateId yields an identifier in the layout 8-4-4-4-12 of hex digits
   whose version digit (first of the third group) is 4 and whose variant
   digit (first of the fourth group) is (r & 3) | 8, one of 8, 9, a, b. *)
RECURSIVE BitAnd(_, _)
BitAnd(a, b) ==
    IF a = 0 \/ b = 0 THEN 0
    ELSE 2 * BitAnd(a \div 2, b \div 2) + (IF a % 2 = 1 /\ b % 2 = 1 THEN 1 ELSE 0)

RECURSIVE BitOr(_, _)
BitOr(a, b) ==
    IF a = 0 THEN b
    ELSE IF b = 0 THEN a
    ELSE 2 * BitOr(a \div 2, b \div 2) + (IF a % 2 = 1 \/ b % 2 = 1 THEN 1 ELSE 0)

LowerHex == { "0","1","2","3","4","5","6","7","8","9","a","b","c","d","e","f" }

C19_UuidV4Layout ==
    ret.op = "generateId" =>
        /\ Len(ret.id) = 36
        /\ \A p \in {9, 14, 19, 24} : ret.id[p] = "-"
        /\ \A p \in (1..36) \ {9, 14, 19, 24} : ret.id[p] \in LowerHex
        /\ ret.id[15] = "4"
        /\ ret.id[20] \in {"8", "9", "a", "b"}
        /\ ret.id[20] = HexDigits[BitOr(BitAnd(ret.draws[16], 3), 8) + 1]
        /\ \A p \in (1..36) \ {9, 14, 15, 19, 20, 24} :
              ret.id[p] = HexDigits[ret.draws[DrawIndex[p]] + 1]
        /\ IsUuid(ret.id)

C19_Witness ==
    /\ ret.op = "generateId"
    /\ ret.draws[16] = 15
    /\ ret.id[20] = "b"
    /\ ret.id[15] = "4"
    /\ ret.id[1] = "f"
    /\ ret.id[36] = "f"

(* C20: after any sequence of create, delete and clear the two indexes
   agree: every note in the id index occurs exactly once in the sequence of
   its own category and in no other sequence, every note in a category
   sequence is the note the id index maps its id to, and so the counts of
   getCategories add up to the number of ids getNoteById finds. *)
Occurrences(list, ref) == Cardinality({ j \in 1..Len(list) : list[j] = ref })

RECURSIVE SumCounts(_)
SumCounts(cats) ==
    IF cats = <<>> THEN 0 ELSE Head(cats).count + SumCounts(Tail(cats))

C20_IndexesAgree ==
    /\ \A id \in DOMAIN notesById :
          \A i \in 1..Len(notes) :
              Occurrences(notes[i].list, notesById[id])
                = (IF notes[i].name = heap[notesById[id]].category THEN 1 ELSE 0)
    /\ \A id \in DOMAIN notesById :
          \E i \in 1..Len(notes) : notes[i].name = heap[notesById[id]].category
    /\ \A i \in 1..Len(notes) :
          \A j \in 1..Len(notes[i].list) :
              getNoteById(heap[notes[i].list[j]].id) = notes[i].list[j]
    /\ SumCounts(getCategories)
         = Cardinality({ id \in DOMAIN notesById : getNoteById(id) # 0 })

(* C21: a successful createNote for category C increases the total of C by
   exactly 1, makes the new note retrievable by its id, and leaves unchanged
   the note sequence of every other category and the result of getNoteById
   for every other id. *)
TotalOf(c) == readNotesByCategory(c, Undefined).data.total

C21_CreateFrame ==
    [][ \A ref \in 1..MaxNotes, c \in ReadCategories, id \in IdInputs :
          ( /\ ret'.op = "createNote"
            /\ ret'.status = "success"
            /\ ret'.data = ref
            /\ heap'[ref].category = c
            /\ heap'[ref].id = id )
          => /\ ref = Len(heap) + 1
             /\ TotalOf(c)' = TotalOf(c) + 1
             /\ getNoteById(id)' = ref
             /\ \A c2 \in ReadCategories \ {c} :
                   /\ readNotesByCategory(c2, Undefined)' = readNotesByCategory(c2, Undefined)
                   /\ ViewRead(c2, Undefined)' = ViewRead(c2, Undefined)
             /\ \A id2 \in IdInputs \ {id} :
                   /\ getNoteById(id2)' = getNoteById(id2)
                   /\ ViewById(id2)' = ViewById(id2) ]_vars

(* a third note has just been created into a category that held one note,
   beside a note of the other category stored under the other id *)
C21_Witness ==
    /\ ret.op = "createNote"
    /\ ret.status = "success"
    /\ ret.data = 3
    /\ \E c \in ReadCategories, c2 \in ReadCategories :
          /\ c # c2
          /\ heap[3].category = c
          /\ TotalOf(c) = 2
          /\ TotalOf(c2) = 1
    /\ getNoteById(heap[3].id) = 3
    /\ \E id2 \in IdInputs : id2 # heap[3].id /\ getNoteById(id2) # 0

(* C22: a deleteNote(id) that returns true removes exactly one note: the
   total of the deleted note's category decreases by exactly 1, every other
   stored note remains retrievable by getNoteById with unchanged fields, and
   the note sequences of all other categories are unchanged. *)
C22_DeleteFrame ==
    [][ \A id \in IdInputs, c \in ReadCategories :
          ( /\ ret'.op = "deleteNote"
            /\ ret'.id = id
            /\ ret'.result
            /\ heap[getNoteById(id)].category = c )
          => /\ TotalOf(c)' = TotalOf(c) - 1
             /\ Cardinality(StoredRefs') = Cardinality(StoredRefs) - 1
             /\ \A r \in StoredRefs \ {getNoteById(id)} :
                   /\ r \in StoredRefs'
                   /\ heap'[r] = heap[r]
                   /\ \A id2 \in IdInputs :
                         heap[r].id = id2 => getNoteById(id2)' = r
             /\ \A c2 \in ReadCategories \ {c} :
                   /\ readNotesByCategory(c2, Undefined)' = readNotesByCategory(c2, Undefined)
                   /\ ViewRead(c2, Undefined)' = ViewRead(c2, Undefined) ]_vars

(* C23: ensureSeedNotes creates the four sample notes at most once per
   process, and only if the store has no category on the first call; once
   hasSeeded is set, every later call creates no note, even when the store
   has been emptied by deleteNote or clearAllNotes in between. *)
SampleCategories == { SampleNotes[k].category : k \in 1..Len(SampleNotes) }

SampleNotesCreated ==
    Cardinality({ r \in 1..Len(heap) : heap[r].category \in SampleCategories })

C23_SeedAtMostOnce ==
    [][ /\ hasSeeded => hasSeeded'
        /\ SampleNotesCreated' <= Len(SampleNotes)
        /\ ret'.op # "ensureSeedNotes" => SampleNotesCreated' = SampleNotesCreated
        /\ ret'.op = "ensureSeedNotes" =>
              /\ hasSeeded'
              /\ Len(heap') - Len(heap) \in {0, Len(SampleNotes)}
              /\ SampleNotesCreated' - SampleNotesCreated = Len(heap') - Len(heap)
              /\ Len(heap') # Len(heap) => (~hasSeeded /\ getCategories = <<>>)
              /\ (hasSeeded \/ getCategories # <<>>) =>
                    /\ heap' = heap
                    /\ notesById' = notesById
                    /\ notes' = notes ]_vars

(* the samples were created once, the store was emptied, and the call just
   made created nothing *)
C23_Witness ==
    /\ ret = [ op |-> "ensureSeedNotes", created |-> 0 ]
    /\ hasSeeded
    /\ SampleNotesCreated = Len(SampleNotes)
    /\ getCategories = <<>>
    /\ StoredRefs = {}

====
